---- MODULE Spec2Model ----
(***************************************************************************)
(* A model of datarefw.hpp: the FindDataref<T> (Consumer) and              *)
(* CreateDataref<T, ARRAY_SIZE> (Publisher) class templates.               *)
(*                                                                         *)
(* One behaviour follows ONE object: Init draws its class (cls) and its    *)
(* static type T.  Both classes have the same members (dataref_name,       *)
(* dataref_loc, dataref_types, dataref_writable); FindDataref adds         *)
(* dataref_found, CreateDataref adds dataref_storage.                      *)
(*                                                                         *)
(* Every operation leaves its arguments, result and effects in `call`; the *)
(* step Done hands the result to the caller and clears the record before   *)
(* the next operation starts.  DATAREFW_ASSERT(x) aborts the process: the  *)
(* failed assertion is recorded in call.fault and no action is enabled     *)
(* afterwards.  Sequences are indexed from 0 through At(s, i), as the C++  *)
(* containers are.                                                         *)
(*                                                                         *)
(* SpecCreate and SpecFind follow the operations on a live object;         *)
(* SpecLife follows a Publisher from construction to destruction, with a   *)
(* second object copied or moved from it.                                  *)
(***************************************************************************)
EXTENDS Integers, Sequences, FiniteSets, TLC

\* ------------------------------------------------------------------ bounds
MaxVal == 2          \* element / byte / scalar values are 0..MaxVal (0 is '\0')
MaxLen == 2          \* longest buffer or host array
ARRAY_SIZE == 2      \* the Publisher's template parameter ARRAY_SIZE
SizeMax == 1000      \* stands for SIZE_MAX: (size_t)(-1) = SizeMax
MaxReg == 2          \* registrations the host grants in one run
MaxUnreg == 2        \* unregister calls counted per locator
FloatUlp == 2        \* a double holds every value of Values, a float every
                     \* FloatUlp-th: the scale of the values is half the
                     \* spacing of float

Values == 0..MaxVal
Args == (-1)..(MaxLen + 1)                    \* offset, max, count, index
Buffers == UNION {[1..n -> Values] : n \in 0..MaxLen}

\* ------------------------------------------------- XPLMDataTypeID (bit set)
xplmType_Unknown == 0
xplmType_Int == 1
xplmType_Float == 2
xplmType_Double == 4
xplmType_FloatArray == 8
xplmType_IntArray == 16
xplmType_Data == 32
xplmType_Numeric == xplmType_Int + xplmType_Float + xplmType_Double
\* The kinds the host slot reports: the eight case labels of
\* impl_find_dataref, four other bit combinations, and a value with a bit no
\* XPLMDataTypeID defines.
Kinds ==
  {xplmType_Unknown, xplmType_Int, xplmType_Float, xplmType_Double,
   xplmType_Numeric, xplmType_FloatArray, xplmType_IntArray, xplmType_Data,
   xplmType_Int + xplmType_Float, xplmType_Float + xplmType_Double,
   xplmType_IntArray + xplmType_FloatArray, xplmType_Int + xplmType_Data,
   2 * xplmType_Data}

Types == {"int", "float", "double", "DrIntArr", "DrFloatArr", "string"}

dr_type_is_array(U) == U \in {"DrIntArr", "DrFloatArr"}
dr_type_is_byte(U) == U = "string"
dr_type_is_number(U) == U \in {"int", "float", "double"}

NULL == 0

VARIABLES
  cls,               \* "CreateDataref" or "FindDataref": the object followed
  T,                 \* its template argument
  dataref_name,
  dataref_loc,
  dataref_types,
  dataref_writable,
  dataref_found,     \* FindDataref only
  dataref_storage,   \* CreateDataref only: T dataref_storage { }
  h_accessors,       \* host: locators of the accessors now installed
  h_nreg,            \* host: registrations granted so far
  h_kind,            \* host slot NameA: the XPLMDataTypeID it reports
  h_writable,        \* host slot NameA: what XPLMCanWriteDataRef reports
  h_val,             \* host slot NameA: its scalar value
  h_arr,             \* host slot NameA: its array / byte content
  rmw,               \* FindDataref: <<op, st>> between the read and the write
                     \* of a compound operation, <<>> otherwise
  alive,             \* the object's destructor has not run
  o_alive,           \* CreateDataref: a second object, made from this one, lives
  o_loc,             \* the second object's dataref_loc
  h_unreg,           \* host: XPLMUnregisterDataAccessor calls per locator
  call               \* the last operation: arguments, result, effects

vars == <<cls, T, dataref_name, dataref_loc, dataref_types, dataref_writable,
          dataref_found, dataref_storage, h_accessors, h_nreg,
          h_kind, h_writable, h_val, h_arr, rmw, alive, o_alive, o_loc,
          h_unreg, call>>

HostSlot == <<h_kind, h_writable, h_val, h_arr>>

\* What the life of the objects adds to the state.
Life == <<alive, o_alive, o_loc, h_unreg>>

\* ------------------------------------------------------------------ helpers
At(s, i) == s[i + 1]
InRange(s, i) == 0 <= i /\ i < Len(s)
Min(a, b) == IF a < b THEN a ELSE b
Max0(a) == IF a > 0 THEN a ELSE 0

\* The record of one operation.  a_sz: the length of dataref_storage when it
\* was called; pre: dataref_storage when a read was called (for the write of
\* a compound operation: the value read, the operand, the slot's value before
\* the write); idx: the indices
\* of dataref_storage it read or stored to; dst: what it stored into the
\* caller's buffer, in order; host: the host functions it called, in order.
NoCall ==
  [op |-> "none", null |-> FALSE, offset |-> 0, max |-> 0, src |-> <<>>,
   a_sz |-> 0, pre |-> <<>>, ret |-> 0, dst |-> <<>>, idx |-> {}, host |-> <<>>,
   fault |-> "none"]

\* No operation is in flight, and no assertion has aborted the process.
Idle == call = NoCall

\* Names are character sequences, so that the two assertions on the name are
\* computed as the code computes them.
NameA == <<"a">>
NameB == <<"b">>
Names == {<<>>, NameA, NameB, <<"a", " ", "b">>}

name_ok(name) == name # <<>> /\ \A i \in 1..Len(name) : name[i] # " "

\* std::string(const char *): the bytes before the first '\0'.
RECURSIVE cstr(_)
cstr(s) == IF s = <<>> \/ Head(s) = 0 THEN <<>> ELSE <<Head(s)>> \o cstr(Tail(s))

\* T dataref_storage { }: value-initialised.
DefaultStorage(U) == IF dr_type_is_number(U) THEN 0 ELSE <<>>

\* std::vector::resize(n): keeps the first n elements, pads with 0.
resize(s, n) == [i \in 1..n |-> IF i <= Len(s) THEN s[i] ELSE 0]

ReadOps == {"read_arr", "read_byte", "read_i", "value", "pub_at"}

Result(op, isnull, offset, max, src, ret, dst, idx, host, fault) ==
  [op |-> op, null |-> isnull, offset |-> offset, max |-> max, src |-> src,
   a_sz |-> IF dr_type_is_number(T) THEN 0 ELSE Len(dataref_storage),
   pre |-> IF op \in ReadOps THEN dataref_storage ELSE <<>>,
   ret |-> ret, dst |-> dst, idx |-> idx, host |-> host, fault |-> fault]

IsCreate == cls = "CreateDataref" /\ Idle /\ alive
IsFind == cls = "FindDataref" /\ Idle /\ alive

\* ============================================================ CreateDataref

\* impl_dr_get_datatype: the XPLMDataTypeID of the static type.
impl_dr_get_datatype(U) ==
  CASE U = "int" -> xplmType_Int
    [] U = "float" -> xplmType_Float
    [] U = "double" -> xplmType_Double
    [] U = "DrIntArr" -> xplmType_IntArray
    [] U = "DrFloatArr" -> xplmType_FloatArray
    [] U = "string" -> xplmType_Data

\* The callback pairs register_dataref_accessor passes to
\* XPLMRegisterDataAccessor as non-null, in the order of its parameters:
\* "i", "f", "d" the scalar pairs, "vi", "vf" the array pairs, "b" the byte
\* pair.  There is one overload per family of types.
accessor_table(U) ==
  IF dr_type_is_number(U) THEN <<"i", "f", "d">>
  ELSE IF dr_type_is_array(U) THEN <<"vi", "vf">>
  ELSE <<"b">>

\* register_dataref_accessor: the host grants a fresh locator; the array
\* overload then resizes the storage to ARRAY_SIZE.
register_dataref_accessor ==
  /\ dataref_loc' = h_nreg + 1
  /\ h_nreg' = h_nreg + 1
  /\ h_accessors' = h_accessors \cup {h_nreg + 1}
  /\ dataref_storage' = IF dr_type_is_array(T) THEN resize(dataref_storage, ARRAY_SIZE)
                        ELSE dataref_storage

\* create_dataref(pdr_path, pis_writable) with impl_create_dataref.
create_dataref(pdr_path, pis_writable) ==
  /\ IsCreate
  /\ h_nreg < MaxReg
  /\ dataref_name' = pdr_path
  /\ dataref_writable' = pis_writable
  /\ UNCHANGED <<cls, T, dataref_found, HostSlot, rmw, Life>>
  /\ IF ~name_ok(pdr_path)
     THEN /\ call' = Result("create_dataref", FALSE, 0, 0, <<>>, 0, <<>>, {}, <<>>, "InvalidName")
          /\ UNCHANGED <<dataref_loc, dataref_types, dataref_storage, h_accessors, h_nreg>>
     ELSE /\ dataref_types' = impl_dr_get_datatype(T)
          /\ register_dataref_accessor
          /\ call' = Result("create_dataref", FALSE, 0, 0, accessor_table(T), 0, <<>>, {},
                            <<"XPLMRegisterDataAccessor">>, "none")

\* The host calls a callback only of an accessor it has installed; refcon is
\* the object (this), never null.
HostCallback == IsCreate /\ h_accessors # {}

PubFrame == UNCHANGED <<cls, T, dataref_name, dataref_loc, dataref_types,
                        dataref_writable, dataref_found, h_accessors, h_nreg,
                        HostSlot, rmw, Life>>

\* A plausible slip in current_size: the capacity instead of the size.
current_size_capacity(storage) == ARRAY_SIZE

\* const int a_sz = static_cast<int>(odr->dataref_storage.size()): read anew
\* on every call of a read callback.
current_size(storage) == Len(storage)

\* The window length both read callbacks compute.
upper_limit(offset, max, a_sz) == IF (offset + max) < a_sz THEN max ELSE a_sz

\* The loop of impl_dr_read_tmplt_arr: values[i] = dataref_storage[i + offset]
\* for i < upper_limit.  read_arr_oob: the i whose element lies past the end;
\* g: what those reads yield.
read_arr_oob(storage, offset, upper) ==
  {i \in 0..(Max0(upper) - 1) : ~InRange(storage, offset + i)}
read_arr_copy(storage, offset, upper, g) ==
  [i \in 1..Max0(upper) |-> IF InRange(storage, offset + i - 1)
                            THEN At(storage, offset + i - 1) ELSE g[i - 1]]

\* impl_dr_read_tmplt_arr(refcon, values, offset, max); isnull: values == nullptr.
\* dataref_storage[i + offset] past the end is undefined behaviour: the read
\* yields any value, or the process dies.
impl_dr_read_tmplt_arr(isnull, offset, max) ==
  LET a_sz == current_size(dataref_storage)
      upper == upper_limit(offset, max, a_sz)
      n == Max0(upper)
      touched == {offset + i : i \in 0..(n - 1)}
      oob == read_arr_oob(dataref_storage, offset, upper)
      R(ret, dst, idx, fault) ==
        Result("read_arr", isnull, offset, max, <<>>, ret, dst, idx, <<>>, fault)
  IN  /\ HostCallback /\ dr_type_is_array(T)
      /\ PubFrame /\ UNCHANGED dataref_storage
      /\ IF isnull THEN call' = R(a_sz, <<>>, {}, "none")
         ELSE IF ~(offset >= 0) THEN call' = R(0, <<>>, {}, "NegativeOffset")
         ELSE \/ /\ oob # {}
                 /\ call' = R(0, <<>>, touched, "segv")
              \/ \E g \in [oob -> Values] :
                   call' = R(upper, read_arr_copy(dataref_storage, offset, upper, g),
                             touched, "none")

\* A write callback's buffer: nullptr, or the count elements the host hands
\* over (count = Len(values)).
NullBuf == <<-1>>
Count(values) == IF values = NullBuf THEN 0 ELSE Len(values)

\* impl_dr_write_tmplt_arr(refcon, values, offset, count): every iteration
\* stores *(values + offset) into dataref_storage[i].  Reading values past
\* its count elements, or writing dataref_storage[i] past its size, is
\* undefined behaviour (the vector's size never changes): any value is read,
\* the stray stores are not seen, or the process dies.
impl_dr_write_tmplt_arr(values, offset) ==
  LET a_sz == Len(dataref_storage)
      count == Count(values)
      src_oob == count > 0 /\ ~InRange(values, offset)
      sto_oob == count > a_sz
      R(idx, fault) ==
        Result("write_arr", values = NullBuf, offset, count, values, 0, <<>>, idx, <<>>, fault)
      Store(v) == [i \in 1..a_sz |-> IF i <= count THEN v ELSE dataref_storage[i]]
  IN  /\ HostCallback /\ dr_type_is_array(T)
      /\ PubFrame
      /\ IF values = NullBuf
         THEN call' = R({}, "none") /\ UNCHANGED dataref_storage
         ELSE IF ~(offset >= 0)
         THEN /\ call' = R({}, "NegativeOffset")
              /\ UNCHANGED dataref_storage
         ELSE \/ /\ src_oob \/ sto_oob
                 /\ call' = R(0..(count - 1), "segv")
                 /\ UNCHANGED dataref_storage
              \/ /\ call' = R(0..(count - 1), "none")
                 /\ \E v \in (IF src_oob \/ count = 0 THEN Values ELSE {At(values, offset)}) :
                      dataref_storage' = Store(v)

\* The memcpy of impl_dr_read_byte and the terminator after it.
read_byte_oob(storage, offset, upper) ==
  {i \in 0..(Max0(upper) - 1) : offset + i > Len(storage)}
read_byte_copy(storage, offset, upper, g) ==
  [i \in 1..Max0(upper) |-> IF InRange(storage, offset + i - 1)
                            THEN At(storage, offset + i - 1)
                            ELSE IF offset + i - 1 = Len(storage) THEN 0
                            ELSE g[i - 1]] \o <<0>>

\* impl_dr_read_byte(refcon, values, offset, max).  memcpy(values, dr_str,
\* upper_limit) reads dataref_storage[offset .. offset + upper_limit): index
\* size() holds the string's own '\0', any index past it is undefined
\* behaviour, and a negative upper_limit converts to a huge size_t.  The
\* terminator is then stored at values[upper_limit].
impl_dr_read_byte(isnull, offset, max) ==
  LET a_sz == current_size(dataref_storage)
      upper == upper_limit(offset, max, a_sz)
      n == Max0(upper)
      touched == IF upper < 0 THEN offset..(a_sz + 1)
                 ELSE {offset + i : i \in 0..(n - 1)}
      oob == read_byte_oob(dataref_storage, offset, upper)
      R(ret, dst, idx, fault) ==
        Result("read_byte", isnull, offset, max, <<>>, ret, dst, idx, <<>>, fault)
  IN  /\ HostCallback /\ dr_type_is_byte(T)
      /\ PubFrame /\ UNCHANGED dataref_storage
      /\ IF isnull THEN call' = R(a_sz, <<>>, {}, "none")
         ELSE IF ~(offset >= 0) THEN call' = R(0, <<>>, {}, "NegativeOffset")
         ELSE IF upper < 0 THEN call' = R(0, <<>>, touched, "segv")
         ELSE \/ /\ oob # {}
                 /\ call' = R(0, <<>>, touched, "segv")
              \/ \E g \in [oob -> Values] :
                   call' = R(upper, read_byte_copy(dataref_storage, offset, upper, g),
                             touched, "none")

\* impl_dr_write_byte(refcon, values, offset, count): copies the count - offset
\* bytes values[offset .. count) into a temporary, terminates it and assigns
\* std::string(temp_val).
impl_dr_write_byte(values, offset) ==
  LET count == Count(values)
      ncount == count - offset
      R(fault) ==
        Result("write_byte", values = NullBuf, offset, count, values, 0, <<>>, {}, <<>>, fault)
  IN  /\ HostCallback /\ dr_type_is_byte(T)
      /\ PubFrame
      /\ IF values = NullBuf \/ offset >= count \/ count = 0
         THEN /\ call' = R("none")
              /\ UNCHANGED dataref_storage
         ELSE IF ~(offset >= 0)
         THEN /\ call' = R("NegativeOffset")
              /\ UNCHANGED dataref_storage
         ELSE /\ call' = R("none")
              /\ dataref_storage' =
                   cstr([i \in 1..ncount |-> At(values, offset + i - 1)])

\* impl_dr_read_i / _f / _d(refcon): the stored value.
impl_dr_read_i ==
  /\ HostCallback /\ dr_type_is_number(T)
  /\ PubFrame /\ UNCHANGED dataref_storage
  /\ call' = Result("read_i", FALSE, 0, 0, <<>>, dataref_storage, <<>>, {}, <<>>, "none")

\* impl_dr_write_i / _f / _d(refcon, val): overwrites the stored value.
impl_dr_write_i(val) ==
  /\ HostCallback /\ dr_type_is_number(T)
  /\ PubFrame
  /\ dataref_storage' = val
  /\ call' = Result("write_i", FALSE, 0, 0, val, 0, <<>>, {}, <<>>, "none")

\* CreateDataref::operator=(const T& value): local assignment.
Create_operator_assign(value) ==
  /\ IsCreate
  /\ PubFrame
  /\ dataref_storage' = value
  /\ call' = Result("assign", FALSE, 0, 0, value, value, <<>>, {}, <<>>, "none")

\* CreateDataref::operator T(): the local value.
Create_operator_T ==
  /\ IsCreate
  /\ PubFrame /\ UNCHANGED dataref_storage
  /\ call' = Result("value", FALSE, 0, 0, <<>>, dataref_storage, <<>>, {}, <<>>, "none")

\* (size_t) of an int argument.
to_size_t(i) == IF i < 0 THEN SizeMax + 1 + i ELSE i

\* CreateDataref::at(index) / operator[](index), read through the reference
\* it returns: DATAREFW_ASSERT(index < ARRAY_SIZE), then
\* dataref_storage[index].  The assertion compares with the template
\* parameter, not with dataref_storage.size(): an index the vector does not
\* hold is undefined behaviour (any value, or the process dies).
Create_at(i) ==
  LET index == to_size_t(i)
      R(ret, idx, fault) ==
        Result("pub_at", FALSE, i, 0, <<>>, ret, <<>>, idx, <<>>, fault)
  IN  /\ IsCreate /\ dr_type_is_array(T)
      /\ PubFrame /\ UNCHANGED dataref_storage
      /\ IF ~(index < ARRAY_SIZE) THEN call' = R(0, {}, "OutOfRange")
         ELSE IF InRange(dataref_storage, index)
         THEN call' = R(At(dataref_storage, index), {index}, "none")
         ELSE \/ call' = R(0, {index}, "segv")
              \/ \E g \in Values : call' = R(g, {index}, "none")

\* at(index) = value / operator[](index) = value: a store through the
\* reference.  A store past the vector's elements is undefined behaviour
\* (the vector does not show it, or the process dies).
Create_at_assign(i, value) ==
  LET index == to_size_t(i)
      R(idx, fault) ==
        Result("pub_at_assign", FALSE, i, 0, value, 0, <<>>, idx, <<>>, fault)
  IN  /\ IsCreate /\ dr_type_is_array(T)
      /\ PubFrame
      /\ IF ~(index < ARRAY_SIZE)
         THEN call' = R({}, "OutOfRange") /\ UNCHANGED dataref_storage
         ELSE IF InRange(dataref_storage, index)
         THEN /\ call' = R({index}, "none")
              /\ dataref_storage' = [dataref_storage EXCEPT ![index + 1] = value]
         ELSE /\ UNCHANGED dataref_storage
              /\ \/ call' = R({index}, "segv")
                 \/ call' = R({index}, "none")

\* ------------------------------------------------ the life of a Publisher

\* A plausible slip in impl_dr_cleanup: the locator is not cleared.
impl_dr_cleanup_keep(loc) ==
  IF loc # NULL THEN [loc |-> loc, unreg |-> <<loc>>]
  ELSE [loc |-> loc, unreg |-> <<>>]

\* impl_dr_cleanup() on an object whose dataref_loc is loc: the locator it
\* leaves and the locators it passes to XPLMUnregisterDataAccessor.
impl_dr_cleanup(loc) ==
  IF loc # NULL THEN [loc |-> NULL, unreg |-> <<loc>>]
  ELSE [loc |-> loc, unreg |-> <<>>]

\* The host's side of XPLMUnregisterDataAccessor for the locators in unreg.
XPLMUnregisterDataAccessor(unreg) ==
  /\ h_accessors' = h_accessors \ {unreg[i] : i \in 1..Len(unreg)}
  /\ h_unreg' = [l \in 1..MaxReg |->
                  IF \E i \in 1..Len(unreg) : unreg[i] = l THEN h_unreg[l] + 1
                  ELSE h_unreg[l]]

\* The counter of unregister calls stays within MaxUnreg.
UnregBounded(loc) == loc # NULL => h_unreg[loc] < MaxUnreg

\* A std::string or std::vector after it was moved from.  The vector is
\* empty; the string is valid but unspecified (it kept its content or is
\* empty); a number is copied.
MovedFrom(x, isvec) == IF isvec THEN {<<>>} ELSE {x, <<>>}

LifeFrame == UNCHANGED <<cls, T, dataref_types, dataref_writable, dataref_found,
                         h_nreg, HostSlot, rmw>>

\* CreateDataref(const CreateDataref&) = default: a second object gets a copy
\* of every member, dataref_loc included.  Of the second object the model
\* keeps the locator, which is all the host sees of it.
Copy_construct ==
  /\ IsCreate /\ ~o_alive
  /\ o_alive' = TRUE /\ o_loc' = dataref_loc
  /\ LifeFrame
  /\ UNCHANGED <<dataref_name, dataref_loc, dataref_storage, h_accessors, alive, h_unreg>>
  /\ call' = Result("copy_construct", FALSE, dataref_loc, 0, <<>>, 0, <<>>, {}, <<>>, "none")

\* CreateDataref(CreateDataref&&) = default: memberwise move.  The locator is
\* a pointer: it is copied, and this object keeps it.
Move_construct ==
  /\ IsCreate /\ ~o_alive
  /\ o_alive' = TRUE /\ o_loc' = dataref_loc
  /\ LifeFrame
  /\ UNCHANGED <<dataref_loc, h_accessors, alive, h_unreg>>
  /\ dataref_name' \in MovedFrom(dataref_name, FALSE)
  /\ dataref_storage' \in IF dr_type_is_number(T) THEN {dataref_storage}
                          ELSE MovedFrom(dataref_storage, dr_type_is_array(T))
  /\ call' = Result("move_construct", FALSE, dataref_loc, 0, <<>>, 0, <<>>, {}, <<>>, "none")

\* operator=(const CreateDataref&) = default, the second object assigned from
\* this one: its locator is overwritten, impl_dr_cleanup is not called.
Copy_assign ==
  /\ IsCreate /\ o_alive
  /\ o_loc' = dataref_loc
  /\ LifeFrame
  /\ UNCHANGED <<dataref_name, dataref_loc, dataref_storage, h_accessors, alive,
                 o_alive, h_unreg>>
  /\ call' = Result("copy_assign", FALSE, dataref_loc, 0, <<>>, 0, <<>>, {}, <<>>, "none")

\* operator=(CreateDataref&&) = default, the second object assigned from this
\* one.
Move_assign ==
  /\ IsCreate /\ o_alive
  /\ o_loc' = dataref_loc
  /\ LifeFrame
  /\ UNCHANGED <<dataref_loc, h_accessors, alive, o_alive, h_unreg>>
  /\ dataref_name' \in MovedFrom(dataref_name, FALSE)
  /\ dataref_storage' \in IF dr_type_is_number(T) THEN {dataref_storage}
                          ELSE MovedFrom(dataref_storage, dr_type_is_array(T))
  /\ call' = Result("move_assign", FALSE, dataref_loc, 0, <<>>, 0, <<>>, {}, <<>>, "none")

\* ~CreateDataref() of this object: impl_dr_cleanup(), then the members are
\* gone.  call.offset: dataref_loc when it was called; call.dst: the locators
\* passed to the host.
Destructor ==
  LET c == impl_dr_cleanup(dataref_loc)
  IN  /\ IsCreate /\ UnregBounded(dataref_loc)
      /\ dataref_loc' = c.loc
      /\ XPLMUnregisterDataAccessor(c.unreg)
      /\ alive' = FALSE
      /\ LifeFrame
      /\ UNCHANGED <<dataref_name, dataref_storage, o_alive, o_loc>>
      /\ call' = Result("destroy", FALSE, dataref_loc, 0, <<>>, 0, c.unreg, {},
                        IF c.unreg = <<>> THEN <<>> ELSE <<"XPLMUnregisterDataAccessor">>,
                        "none")

\* ~CreateDataref() of the second object.
Other_Destructor ==
  LET c == impl_dr_cleanup(o_loc)
  IN  /\ cls = "CreateDataref" /\ Idle /\ o_alive /\ UnregBounded(o_loc)
      /\ o_loc' = c.loc
      /\ XPLMUnregisterDataAccessor(c.unreg)
      /\ o_alive' = FALSE
      /\ LifeFrame
      /\ UNCHANGED <<dataref_name, dataref_loc, dataref_storage, alive>>
      /\ call' = Result("destroy_other", FALSE, o_loc, 0, <<>>, 0, c.unreg, {},
                        IF c.unreg = <<>> THEN <<>> ELSE <<"XPLMUnregisterDataAccessor">>,
                        "none")

\* The values a T can hold.
ValuesOf(U) == IF dr_type_is_number(U) THEN Values ELSE Buffers

\* ====================================================== the host, as the
\* Consumer sees it (XPLMDataAccess.h).  The registry holds one slot, NameA,
\* with locator SlotLoc.
SlotLoc == 1

XPLMFindDataRef(name) == IF name = NameA THEN SlotLoc ELSE NULL

\* XPLMGetDatavi / vf / b with a buffer: up to max elements from offset.
read_window(offset, max) ==
  LET n == Max0(Min(max, Len(h_arr) - offset))
  IN  [i \in 1..n |-> At(h_arr, offset + i - 1)]

\* XPLMSetDatavi / vf / b: the slot keeps its length; a slot that is not
\* writable ignores the call.
write_window(values, offset, count) ==
  IF ~h_writable THEN h_arr
  ELSE [i \in 1..Len(h_arr) |->
          IF offset <= i - 1 /\ i - 1 < offset + count /\ i - 1 - offset < Len(values)
          THEN At(values, i - 1 - offset) ELSE h_arr[i]]

\* XPLMSetDatai / f / d: a slot that is not writable ignores the call.
write_scalar(value) == IF h_writable THEN value ELSE h_val

\* ============================================================== FindDataref

\* (float) of a double: the nearest float towards zero.
to_float(x) == x - (x % FloatUlp)

\* The values a float holds.
FloatValues == {v \in Values : to_float(v) = v}

\* The values a FindDataref<U> is given and returns.
FindValuesOf(U) == IF U = "float" THEN FloatValues
                   ELSE IF dr_type_is_number(U) THEN Values ELSE Buffers

\* The parameter of impl_dr_set: const int, const float, and const float
\* again in the overload for double, so a double is narrowed on the way in.
set_param(U, value) == IF U \in {"float", "double"} THEN to_float(value) ELSE value

FindFrame == UNCHANGED <<cls, T, dataref_storage, h_accessors, h_nreg, Life>>

\* The switch of impl_find_dataref: the assertion the reported kind runs
\* into, "none" when there is none.  A kind that is no case label runs into
\* no assertion (the switch has no default).
verify_kind(kind, U) ==
  CASE kind = xplmType_Int -> IF U = "int" THEN "none" ELSE "TypeMismatch"
    [] kind = xplmType_Float -> IF U = "float" THEN "none" ELSE "TypeMismatch"
    [] kind = xplmType_Double -> IF U = "double" THEN "none" ELSE "TypeMismatch"
    [] kind = xplmType_Numeric -> IF dr_type_is_number(U) THEN "none" ELSE "TypeMismatch"
    [] kind = xplmType_IntArray -> IF U = "DrIntArr" THEN "none" ELSE "TypeMismatch"
    [] kind = xplmType_FloatArray -> IF U = "DrFloatArr" THEN "none" ELSE "TypeMismatch"
    [] kind = xplmType_Data -> IF U = "string" THEN "none" ELSE "TypeMismatch"
    [] kind = xplmType_Unknown -> "UnknownKind"
    [] OTHER -> "none"

\* find_dataref(dr_str) with impl_find_dataref.
find_dataref(dr_str) ==
  LET loc == XPLMFindDataRef(dr_str)
      R(host, fault) ==
        Result("find_dataref", FALSE, 0, 0, dr_str, 0, <<>>, {}, host, fault)
  IN  /\ IsFind /\ rmw = <<>>
      /\ FindFrame /\ UNCHANGED <<HostSlot, rmw>>
      /\ dataref_name' = dr_str
      /\ IF ~name_ok(dr_str)
         THEN /\ call' = R(<<>>, "InvalidName")
              /\ UNCHANGED <<dataref_loc, dataref_types, dataref_writable, dataref_found>>
         ELSE /\ dataref_loc' = loc
              /\ IF loc = NULL
                 THEN /\ call' = R(<<"XPLMFindDataRef">>, "none")
                      /\ UNCHANGED <<dataref_types, dataref_writable, dataref_found>>
                 ELSE /\ dataref_types' = h_kind
                      /\ IF verify_kind(h_kind, T) # "none"
                         THEN /\ call' = R(<<"XPLMFindDataRef", "XPLMGetDataRefTypes">>,
                                           verify_kind(h_kind, T))
                              /\ UNCHANGED <<dataref_writable, dataref_found>>
                         ELSE /\ dataref_writable' = h_writable
                              /\ dataref_found' = TRUE
                              /\ call' = R(<<"XPLMFindDataRef", "XPLMGetDataRefTypes",
                                             "XPLMCanWriteDataRef">>, "none")

\* impl_verify_dataref_found: DATAREFW_ASSERT(dataref_loc != nullptr).
impl_verify_dataref_found == dataref_loc # NULL

\* impl_verify_dataref_writable: DATAREFW_ASSERT(dataref_writable != false).
\* No member function calls it.
impl_verify_dataref_writable == dataref_writable # FALSE

\* impl_get_array_size: a length probe, XPLMGetDatav*(loc, nullptr, 0, 0).
impl_get_array_size == Len(h_arr)

\* impl_dr_get, by static type: one scalar read; for an array a probe and one
\* bulk read; for a string a probe, a read of sz bytes into sz + 1 bytes, a
\* terminator at [sz] and std::string(dr_val).
impl_dr_get_value ==
  IF dr_type_is_number(T) THEN h_val
  ELSE IF dr_type_is_array(T) THEN read_window(0, impl_get_array_size)
  ELSE IF impl_get_array_size = 0 THEN <<>>
  ELSE cstr(read_window(0, impl_get_array_size) \o <<0>>)

impl_dr_get_host ==
  IF dr_type_is_number(T) THEN <<"XPLMGetData">>
  ELSE IF dr_type_is_array(T) \/ impl_get_array_size # 0
  THEN <<"XPLMGetDatav", "XPLMGetDatav">>
  ELSE <<"XPLMGetDatav">>

\* operator T() / operator<< / the comparison operators: impl_dr_get().
Find_operator_T ==
  /\ IsFind /\ rmw = <<>>
  /\ FindFrame
  /\ UNCHANGED <<dataref_name, dataref_loc, dataref_types, dataref_writable,
                 dataref_found, HostSlot, rmw>>
  /\ IF ~impl_verify_dataref_found
     THEN call' = Result("get", FALSE, 0, 0, <<>>, 0, <<>>, {}, <<>>, "Unbound")
     ELSE call' = Result("get", FALSE, 0, 0, <<>>, impl_dr_get_value, <<>>, {},
                         impl_dr_get_host, "none")

\* impl_dr_set(value): impl_verify_dataref_found(), then the host write of
\* the static type (offset 0, the whole buffer, for arrays and strings).
\* call.ret: what the operator returns, the value it passed to impl_dr_set;
\* hist: call.pre.
impl_dr_set(opname, value, hist) ==
  /\ FindFrame
  /\ UNCHANGED <<dataref_name, dataref_loc, dataref_types, dataref_writable,
                 dataref_found, h_kind, h_writable>>
  /\ IF ~impl_verify_dataref_found
     THEN /\ call' = Result(opname, FALSE, 0, 0, value, 0, <<>>, {}, <<>>, "Unbound")
          /\ UNCHANGED <<h_val, h_arr>>
     ELSE /\ call' = [Result(opname, FALSE, 0, 0, value, value, <<>>, {},
                             <<IF dr_type_is_number(T) THEN "XPLMSetData" ELSE "XPLMSetDatav">>,
                             "none") EXCEPT !.pre = hist]
          /\ IF dr_type_is_number(T)
             THEN h_val' = write_scalar(set_param(T, value)) /\ UNCHANGED h_arr
             ELSE h_arr' = write_window(value, 0, Len(value)) /\ UNCHANGED h_val

\* FindDataref::operator=(const T& value).
Find_operator_assign(value) ==
  /\ IsFind /\ rmw = <<>>
  /\ UNCHANGED rmw
  /\ impl_dr_set("assign", value, <<>>)

\* The arithmetic of the compound operators on the value read.
CompoundOps == {"++", "--", "+=", "-=", "*=", "/="}
apply(op, x, v) ==
  CASE op = "++" -> x + 1
    [] op = "--" -> x - 1
    [] op = "+=" -> x + v
    [] op = "-=" -> x - v
    [] op = "*=" -> x * v
    [] op = "/=" -> x \div v

\* operator++ / -- / += / -= / *= / /=, first half: auto st = impl_dr_get() op
\* value.  ++ and -- exist for int only; the operand of /= is not 0 (and
\* divides the value read, unless T is int) and the result stays in the
\* values of T (the bound of the scalar range).  rmw keeps op and st, and the
\* value read and the operand for the record of the second half.
Find_compound_get(op, value) ==
  /\ IsFind /\ rmw = <<>>
  /\ dr_type_is_number(T)
  /\ op \in {"++", "--"} => T = "int"
  /\ op = "/=" => value # 0
  /\ FindFrame
  /\ UNCHANGED <<dataref_name, dataref_loc, dataref_types, dataref_writable,
                 dataref_found, HostSlot>>
  /\ IF ~impl_verify_dataref_found
     THEN /\ call' = Result(op, FALSE, 0, 0, value, 0, <<>>, {}, <<>>, "Unbound")
          /\ UNCHANGED rmw
     ELSE /\ (op = "/=" /\ T # "int") => impl_dr_get_value % value = 0
          /\ apply(op, impl_dr_get_value, value) \in FindValuesOf(T)
          /\ rmw' = <<op, apply(op, impl_dr_get_value, value), impl_dr_get_value, value>>
          /\ call' = Result(op, FALSE, 0, 0, value, impl_dr_get_value, <<>>, {},
                            <<"XPLMGetData">>, "none")

\* ..., second half: impl_dr_set(st); return st.  call.pre: the value the
\* first half read, the operand, and the slot's value just before the write.
Find_compound_set ==
  /\ IsFind /\ rmw # <<>>
  /\ rmw' = <<>>
  /\ impl_dr_set(rmw[1], rmw[2], <<rmw[3], rmw[4], h_val>>)

\* FindDataref::size(): impl_get_array_size().
Find_size ==
  /\ IsFind /\ rmw = <<>>
  /\ dr_type_is_array(T)
  /\ FindFrame
  /\ UNCHANGED <<dataref_name, dataref_loc, dataref_types, dataref_writable,
                 dataref_found, HostSlot, rmw>>
  /\ IF ~impl_verify_dataref_found
     THEN call' = Result("size", FALSE, 0, 0, <<>>, 0, <<>>, {}, <<>>, "Unbound")
     ELSE call' = Result("size", FALSE, 0, 0, <<>>, impl_get_array_size, <<>>, {},
                         <<"XPLMGetDatav">>, "none")

\* impl_arr_get_val(index): arr_val {} and XPLMGetDatav*(loc, &arr_val, index, 1).
impl_arr_get_val(index) ==
  IF read_window(index, 1) = <<>> THEN 0 ELSE read_window(index, 1)[1]

\* A plausible slip in at_in_range: <= for <.
at_in_range_le(index) == index <= impl_get_array_size

\* The assertion of at(): DATAREFW_ASSERT(index < impl_get_array_size()).
at_in_range(index) == index < impl_get_array_size

\* FindDataref::at(index) / operator[](index); i is the caller's argument,
\* converted to std::size_t.
Find_at(i) ==
  LET index == to_size_t(i)
      R(ret, host, fault) ==
        Result("at", FALSE, i, 0, h_arr, ret, <<>>, {}, host, fault)
  IN  /\ IsFind /\ rmw = <<>>
      /\ dr_type_is_array(T)
      /\ FindFrame
      /\ UNCHANGED <<dataref_name, dataref_loc, dataref_types, dataref_writable,
                     dataref_found, HostSlot, rmw>>
      /\ IF ~impl_verify_dataref_found THEN call' = R(0, <<>>, "Unbound")
         ELSE IF ~at_in_range(index)
         THEN call' = R(0, <<"XPLMGetDatav">>, "OutOfRange")
         ELSE call' = R(impl_arr_get_val(index), <<"XPLMGetDatav", "XPLMGetDatav">>, "none")

\* Another party writes the slot's scalar value, a value of T (what the
\* accessor of T's kind yields).  A FindDataref of an array or string type
\* never reads it, so it is varied for the number types only.
HostSetScalar(v) ==
  /\ IsFind /\ dr_type_is_number(T)
  /\ h_val' = v
  /\ FindFrame /\ UNCHANGED call
  /\ UNCHANGED <<dataref_name, dataref_loc, dataref_types, dataref_writable,
                 dataref_found, h_kind, h_writable, h_arr, rmw>>

\* The slot's array changes content and length (a FindDataref of a number
\* type never reads it).
HostSetArray(a) ==
  /\ IsFind /\ ~dr_type_is_number(T)
  /\ h_arr' = a
  /\ FindFrame /\ UNCHANGED call
  /\ UNCHANGED <<dataref_name, dataref_loc, dataref_types, dataref_writable,
                 dataref_found, h_kind, h_writable, h_val, rmw>>

\* The operation in flight returns to its caller.
Done ==
  /\ call # NoCall /\ call.fault = "none"
  /\ call' = NoCall
  /\ UNCHANGED <<cls, T, dataref_name, dataref_loc, dataref_types, dataref_writable,
                 dataref_found, dataref_storage, h_accessors, h_nreg,
                 h_kind, h_writable, h_val, h_arr, rmw, Life>>

\* ============================================================ specification

InitObject ==
  /\ T \in Types
  /\ dataref_name = <<>>
  /\ dataref_loc = NULL
  /\ dataref_types = xplmType_Unknown
  /\ dataref_writable = FALSE
  /\ dataref_found = FALSE
  /\ dataref_storage = DefaultStorage(T)
  /\ h_accessors = {}
  /\ h_nreg = 0
  /\ h_val = 0
  /\ h_arr = <<>>
  /\ rmw = <<>>
  /\ alive = TRUE
  /\ o_alive = FALSE
  /\ o_loc = NULL
  /\ h_unreg = [l \in 1..MaxReg |-> 0]
  /\ call = NoCall

\* A default-constructed CreateDataref<T, ARRAY_SIZE>.
InitCreate ==
  /\ cls = "CreateDataref"
  /\ h_kind = xplmType_Unknown
  /\ h_writable = FALSE
  /\ InitObject

\* A default-constructed FindDataref<T>, and the host slot NameA.
InitFind ==
  /\ cls = "FindDataref"
  /\ h_kind \in Kinds
  /\ h_writable \in BOOLEAN
  /\ InitObject

Init == InitCreate \/ InitFind

\* The operations on a Publisher: create_dataref, the callbacks the host
\* calls, and the local operators.
NextCreate ==
  \/ IsCreate /\ \E n \in Names \ {NameB}, w \in BOOLEAN : create_dataref(n, w)
  \/ IsCreate /\ \E b \in BOOLEAN, o \in Args, m \in Args : impl_dr_read_tmplt_arr(b, o, m)
  \/ IsCreate /\ \E v \in Buffers \cup {NullBuf}, o \in Args : impl_dr_write_tmplt_arr(v, o)
  \/ IsCreate /\ \E b \in BOOLEAN, o \in Args, m \in Args : impl_dr_read_byte(b, o, m)
  \/ IsCreate /\ \E v \in Buffers \cup {NullBuf}, o \in Args : impl_dr_write_byte(v, o)
  \/ impl_dr_read_i
  \/ IsCreate /\ \E v \in Values : impl_dr_write_i(v)
  \/ IsCreate /\ \E v \in ValuesOf(T) : Create_operator_assign(v)
  \/ Create_operator_T
  \/ IsCreate /\ \E i \in Args : Create_at(i)
  \/ IsCreate /\ \E i \in Args, v \in Values : Create_at_assign(i, v)
  \/ Done

\* The life of a Publisher and of a second object made from it: registration,
\* copies, moves and the destructors.
NextLife ==
  \/ IsCreate /\ \E n \in Names \ {NameB}, w \in BOOLEAN : create_dataref(n, w)
  \/ Copy_construct
  \/ Move_construct
  \/ Copy_assign
  \/ Move_assign
  \/ Destructor
  \/ Other_Destructor
  \/ Done

\* The operations on a Consumer, and what other parties do to its host slot.
NextFind ==
  \/ IsFind /\ \E n \in Names : find_dataref(n)
  \/ Find_operator_T
  \/ IsFind /\ \E v \in FindValuesOf(T) : Find_operator_assign(v)
  \/ IsFind /\ \E op \in CompoundOps, v \in FindValuesOf(T) : Find_compound_get(op, v)
  \/ Find_compound_set
  \/ Find_size
  \/ IsFind /\ \E i \in Args : Find_at(i)
  \/ IsFind /\ \E v \in FindValuesOf(T) : HostSetScalar(v)
  \/ IsFind /\ \E a \in Buffers : HostSetArray(a)
  \/ Done

Next == NextCreate \/ NextFind

\* The object is a Publisher or a Consumer.
Spec == Init /\ [][Next]_vars
\* The object is a Publisher.
SpecCreate == InitCreate /\ [][NextCreate]_vars
\* The object is a Consumer.
SpecFind == InitFind /\ [][NextFind]_vars
\* The object is a Publisher, from construction to destruction.
SpecLife == InitCreate /\ [][NextLife]_vars

\* ================================================================== claims

WindowOps == {"read_arr", "write_arr", "read_byte", "write_byte"}
WindowReads == {"read_arr", "read_byte"}
WindowWrites == {"write_arr", "write_byte"}
WriteOps == {"assign"} \cup CompoundOps
ValueOps == {"get", "assign", "size", "at"} \cup CompoundOps

\* C1: a windowed callback called with a buffer and offset >= 0 reads and
\* writes dataref_storage only at indices in [0, a_sz), a_sz the length at the
\* call, and a read stores no more than the count it returns (and the one
\* terminator of a byte string) into the destination.
C1_WindowInBounds ==
  (call.op \in WindowOps /\ ~call.null /\ call.offset >= 0 /\ call.max >= 0) =>
    /\ call.idx \subseteq 0..(call.a_sz - 1)
    /\ call.op \in WindowReads =>
         Len(call.dst) <= call.ret + (IF call.op = "read_byte" THEN 1 ELSE 0)

\* The count C2 expects of a read.
ExpectedCount(offset, max, a_sz) ==
  IF max > 0 THEN Min(max, a_sz - offset) ELSE a_sz - offset

\* C2: a windowed read with a buffer and 0 <= offset <= a_sz returns
\* min(max, a_sz - offset) when max > 0 and a_sz - offset when max = 0, and
\* the destination holds exactly storage[offset .. offset + count).
C2_ReadWindow ==
  (/\ call.op \in WindowReads /\ ~call.null
   /\ 0 <= call.offset /\ call.offset <= call.a_sz /\ call.max >= 0) =>
    LET count == ExpectedCount(call.offset, call.max, call.a_sz)
    IN  /\ call.fault = "none"
        /\ call.ret = count
        /\ SubSeq(call.dst, 1, count) = SubSeq(call.pre, call.offset + 1, call.offset + count)
        /\ Len(call.dst) = count + (IF call.op = "read_byte" THEN 1 ELSE 0)

\* C3: a windowed write with a buffer copies the consecutive source elements
\* source[offset], source[offset + 1], ... into storage in that order.  Read
\* in the code's favour: the window is the count - offset elements the buffer
\* holds from offset on; an array's storage starts with it, a byte string's
\* storage is it, up to its first '\0'.
C3_WriteWindow ==
  (/\ call.op \in WindowWrites /\ ~call.null
   /\ 0 <= call.offset /\ call.offset < call.max) =>
    LET window == SubSeq(call.src, call.offset + 1, call.max)
    IN  /\ call.fault = "none"
        /\ IF call.op = "write_arr"
           THEN /\ Len(window) <= Len(dataref_storage)
                /\ SubSeq(dataref_storage, 1, Len(window)) = window
           ELSE dataref_storage = cstr(window)

\* C4: a windowed read without a buffer is a length probe: for every offset
\* and max it returns the current length of the storage, runs into no
\* assertion, and touches neither the storage nor a buffer.
C4_LengthProbe ==
  (call.op \in WindowReads /\ call.null) =>
    /\ call.fault = "none"
    /\ call.ret = Len(call.pre)
    /\ call.idx = {} /\ call.dst = <<>>
    /\ dataref_storage = call.pre

\* C4's case: a probe with a negative offset and a max past the end of a
\* storage that local code has shortened to one element.
C4_Witness ==
  /\ call.op \in WindowReads /\ call.null
  /\ call.offset < 0 /\ call.max > Len(call.pre)
  /\ call.ret = 1

\* C5: after a byte-string read with a buffer, destination[upper_limit] is 0
\* and destination[0 .. upper_limit) are the stored bytes from offset on.
C5_ByteTerminated ==
  (call.op = "read_byte" /\ ~call.null /\ call.offset >= 0 /\ call.max >= 0) =>
    /\ call.fault = "none"
    /\ Len(call.dst) = call.ret + 1
    /\ call.dst[call.ret + 1] = 0
    /\ \A i \in 1..call.ret :
         /\ InRange(call.pre, call.offset + i - 1)
         /\ call.dst[i] = At(call.pre, call.offset + i - 1)

\* C6: what a whole-value write stored is what the read right after it
\* returns (offset 0, max the length of v): for a scalar, an array and a
\* byte string (one without '\0'), written by the host's write callback or by
\* local assignment, read by the host's read callback or by value().
C6_RoundTrip ==
  LET v == call.src
      up == upper_limit(0, Len(v), current_size(dataref_storage))
  IN  /\ (call.op \in {"write_i", "assign"} /\ cls = "CreateDataref") =>
           dataref_storage = v
      /\ (call.op = "write_arr" /\ ~call.null /\ call.offset = 0) =>
           /\ call.fault = "none"
           /\ up = Len(v)
           /\ read_arr_copy(dataref_storage, 0, up, <<>>) = v
      /\ (call.op = "write_byte" /\ ~call.null /\ call.offset = 0
          /\ \A i \in 1..Len(v) : v[i] # 0) =>
           /\ call.fault = "none"
           /\ up = Len(v)
           /\ read_byte_copy(dataref_storage, 0, up, <<>>) = v \o <<0>>

\* The kind of the static type U, or the numeric composite for a number type.
KindMatches(kind, U) ==
  \/ kind = impl_dr_get_datatype(U)
  \/ kind = xplmType_Numeric /\ dr_type_is_number(U)

\* C7: find_dataref on a slot the host finds binds the handle only when the
\* reported kind is the kind of T (or the numeric composite, T a number
\* type); every other kind fails with TypeMismatch or UnknownKind.
C7_BindChecksKind ==
  (call.op = "find_dataref" /\ call.src = NameA) =>
    IF KindMatches(h_kind, T)
    THEN call.fault = "none" /\ dataref_found
    ELSE call.fault \in {"TypeMismatch", "UnknownKind"} /\ ~dataref_found

\* C8: on a bound Consumer whose writable flag is false, a write operation
\* (assignment or compound) fails with NotWritable and calls no host write.
C8_NotWritable ==
  (/\ cls = "FindDataref" /\ call.op \in WriteOps /\ rmw = <<>>
   /\ dataref_loc # NULL /\ ~dataref_writable) =>
    /\ call.fault = "NotWritable"
    /\ \A i \in 1..Len(call.host) : call.host[i] \notin {"XPLMSetData", "XPLMSetDatav"}

\* C9: a lookup that finds no slot returns without failing and leaves
\* found() false, and every value operation on a handle without a locator
\* fails with Unbound before any host function is called.
C9_UnboundUsable ==
  /\ (call.op = "find_dataref" /\ name_ok(call.src) /\ dataref_loc = NULL) =>
       call.fault = "none" /\ ~dataref_found
  /\ (cls = "FindDataref" /\ call.op \in ValueOps /\ dataref_loc = NULL) =>
       call.fault = "Unbound" /\ call.host = <<>>

\* C10: on a bound array Consumer, at(i) returns the host's element i when
\* 0 <= i < L and fails with OutOfRange otherwise, L the length the host slot
\* has at this call.
C10_AtChecked ==
  (call.op = "at" /\ dataref_loc # NULL) =>
    IF 0 <= call.offset /\ call.offset < Len(h_arr)
    THEN call.fault = "none" /\ call.ret = At(h_arr, call.offset)
    ELSE call.fault = "OutOfRange"

\* C10's case: at(1) returns the last element, 2, of a host array of length 2.
C10_Witness ==
  /\ call.op = "at" /\ call.fault = "none"
  /\ call.offset = 1 /\ Len(h_arr) = 2 /\ call.ret = 2

\* C11: on an array Publisher of capacity ARRAY_SIZE, at(i) / operator[](i)
\* fails with OutOfRange for every i >= ARRAY_SIZE, and for every
\* i < ARRAY_SIZE it refers to element i of the storage, which exists: a read
\* through it yields that element and a store through it changes that element.
C11_PubAtInCapacity ==
  (call.op \in {"pub_at", "pub_at_assign"}) =>
    LET index == to_size_t(call.offset)
    IN  IF index >= ARRAY_SIZE THEN call.fault = "OutOfRange"
        ELSE /\ call.fault = "none"
             /\ index < call.a_sz
             /\ call.idx = {index}
             /\ call.op = "pub_at" => call.ret = At(call.pre, index)
             /\ call.op = "pub_at_assign" => At(dataref_storage, index) = call.src

\* C12: over the life of a Publisher and its copies, the Publisher is bound
\* to at most one host slot, no locator is passed to the host's unregister
\* twice, and no registration (each is made with this object as its refcon)
\* stays installed once this object is destroyed.
C12_RegisteredOnce ==
  /\ h_nreg <= 1
  /\ \A l \in 1..MaxReg : h_unreg[l] <= 1
  /\ ~alive => h_accessors = {}

\* C13: teardown of a registered Publisher passes its locator to the host's
\* unregister once and clears the locator; teardown of a Publisher that is not
\* registered calls no host function and leaves the locator null; a second
\* teardown right after a teardown does nothing.
C13_TeardownIdempotent ==
  (call.op \in {"destroy", "destroy_other"}) =>
    LET post == IF call.op = "destroy" THEN dataref_loc ELSE o_loc
    IN  /\ post = NULL
        /\ IF call.offset # NULL
           THEN /\ call.dst = <<call.offset>>
                /\ call.host = <<"XPLMUnregisterDataAccessor">>
                /\ call.offset \notin h_accessors
           ELSE call.dst = <<>> /\ call.host = <<>>
        /\ impl_dr_cleanup(post) = [loc |-> post, unreg |-> <<>>]

\* C13's case: the destructor of a registered Publisher has unregistered
\* locator 1, which the host had installed.
C13_Witness ==
  /\ call.op = "destroy" /\ call.offset = 1 /\ call.dst = <<1>>
  /\ dataref_loc = NULL /\ h_unreg[1] = 1 /\ h_accessors = {}

\* The one callback pair of the kind of the static type U.
PairOfKind(U) ==
  CASE U = "int" -> <<"i">>
    [] U = "float" -> <<"f">>
    [] U = "double" -> <<"d">>
    [] U = "DrIntArr" -> <<"vi">>
    [] U = "DrFloatArr" -> <<"vf">>
    [] U = "string" -> <<"b">>

\* C14: the callbacks a Publisher passes to the host at registration are the
\* read/write pair of the kind of its static type and no other.
C14_TableMatchesKind ==
  (call.op = "create_dataref" /\ call.fault = "none") => call.src = PairOfKind(T)

\* C15: a compound operation of a Consumer bound to a writable slot of its
\* kind is one
\* host read, then one host write of op(value read, operand), and it returns
\* the value written: the slot then holds op(value read, operand), which with
\* no other writer is op(old, operand).
C15_CompoundReadWrite ==
  /\ (call.op \in CompoundOps /\ rmw # <<>>) =>
       /\ call.host = <<"XPLMGetData">>
       /\ call.ret = h_val
       /\ rmw[2] = apply(call.op, call.ret, call.src)
  /\ (/\ call.op \in CompoundOps /\ rmw = <<>> /\ call.fault = "none"
      /\ h_writable /\ KindMatches(h_kind, T)) =>
       /\ call.host = <<"XPLMSetData">>
       /\ call.ret = apply(call.op, call.pre[1], call.pre[2])
       /\ h_val = call.ret

\* C16: after any sequence of find_dataref calls that returned, found() is
\* true iff the locator is not null, and the name, the kind and the writable
\* flag the handle stores are those of the slot the locator refers to.
C16_HandleInvariant ==
  (cls = "FindDataref" /\ call.fault = "none") =>
    /\ dataref_found <=> dataref_loc # NULL
    /\ dataref_loc # NULL =>
         /\ XPLMFindDataRef(dataref_name) = dataref_loc
         /\ dataref_types = h_kind
         /\ dataref_writable = h_writable
====
